---- MODULE Spec2Model ----
(***************************************************************************)
(* Stack allocator of AhsanSarwar45/MemoryManager (Memarena).              *)
(*                                                                         *)
(* Three variants of the allocator are modelled:                             *)
(*   "Policy" : src/Source/Allocators/StackAllocator.hpp                   *)
(*   "Legacy" : src/Source/StackAllocator/StackAllocator.hpp               *)
(*   "Safe"   : src/Include/MemoryManager/StackAllocatorSafe.hpp (New and  *)
(*              Delete; its Allocate and Deallocate follow the legacy file) *)
(* The arena is a byte array; addresses are absolute, offsets are relative *)
(* to m_StartAddress.  Every multi-byte field (header, guard) is stored    *)
(* little-endian, byte by byte, so overlapping writes are visible.         *)
(***************************************************************************)
EXTENDS Integers, Sequences, FiniteSets, TLC

\* ------------------------------------------------------------------ bounds
TotalSize == 64        \* totalSize handed to the constructor
StartAddress == 8      \* address of the first arena byte (GetStartPtr())
Slack == 8             \* addressable bytes following the arena
MaxAllocs == 3         \* allocation calls in one behaviour
MaxCorrupt == 1        \* client buffer overruns in one behaviour
MaxResets == 1         \* Reset calls in one behaviour
MaxOps == 4            \* calls of any kind in one behaviour

MemSize == StartAddress + TotalSize + Slack
Addresses == 0 .. (MemSize - 1)
Uninit == 0 - 1        \* a byte that was never written
GarbageByte == 5       \* the byte a client overrun leaves behind
ObjectByte == 1        \* the byte a constructor leaves in the payload

\* ------------------------------------------------------- inputs of the calls
\* <<sizeof(T), alignof(T)>> of the object types the client allocates:
\* Allocate<T>(), New<T>(), AllocateArray<T>(n), NewArray<T>(n)
ObjectTypes == {<<12, 4>>, <<8, 8>>}
\* element type and lengths of the arrays
ArrayTypes == {<<8, 8>>}
Counts == {0, 2}
NullPtr == 0
\* pointers that no allocation call returned
ForeignPtrs == {NullPtr, StartAddress - 4, StartAddress + TotalSize,
                StartAddress + TotalSize + 4}

Variants == {"Policy", "Legacy", "Safe"}
\* StackAllocatorSafe's defaultAlignment, which its New uses for every type
DefaultAlignment == 8
Policies == [SizeCheck : BOOLEAN, BoundsCheck : BOOLEAN, StackCheck : BOOLEAN,
             NullCheck : BOOLEAN, OwnershipCheck : BOOLEAN, ThreadSafe : BOOLEAN]
DefaultPolicy == [SizeCheck |-> TRUE, BoundsCheck |-> TRUE, StackCheck |-> TRUE,
                  NullCheck |-> TRUE, OwnershipCheck |-> TRUE, ThreadSafe |-> FALSE]
\* a single client thread never contends for the lock: ThreadSafe changes
\* nothing it can observe and stays off
SequentialPolicies == {p \in Policies : ~p.ThreadSafe}
\* the client threads of the multithreaded allocator, and how deep their
\* constructors nest calls to the allocator
MaxThreads == 2
MaxDepth == 2
Threads == 1 .. MaxThreads
\* the largest alignment the padding calculator is examined with
MaxAlignment == 16
\* the number of bits of the unsigned type Size: its arithmetic is modulo
\* 2^SizeWidth
SizeWidth == 29
SizeModulus == 2 ^ SizeWidth

VARIABLES
    variant,          \* which source file the allocator is compiled from
    policy,           \* the StackAllocatorPolicy template argument
    m_CurrentOffset,  \* StackAllocator::m_CurrentOffset
    usedSize,         \* what GetUsedSize() returns
    mem,              \* the bytes of the address space
    live,             \* the allocations the client holds, oldest first
    lastOp,           \* the last call and its outcome
    halted,           \* the process aborted (failed assertion) or crashed
    discipline,       \* "allocating", "unwinding" (strict LIFO so far) or "other"
    trace,            \* allocation calls since construction / the last Reset
    counters,         \* [ops, allocs, corrupts, resets] made so far
    m_Mutex,          \* m_MultithreadedPolicy.m_Mutex: 0 free, else its owner
    threads           \* per thread, its calls in progress, outermost first

vars == <<variant, policy, m_CurrentOffset, usedSize, mem, live, lastOp, halted,
          discipline, trace, counters, m_Mutex, threads>>

\* ------------------------------------------------------------ byte arena
RECURSIVE Pow256(_)
Pow256(i) == IF i = 0 THEN 1 ELSE 256 * Pow256(i - 1)

\* byte i of the little-endian encoding of value
ByteOf(value, i) == (value \div Pow256(i)) % 256

\* a write of an n-byte field: [addr, n, val]; a fill writes the same byte n times
FieldWrite(addr, n, val) == [addr |-> addr, n |-> n, val |-> val, fill |-> FALSE]
FillWrite(addr, n, byte) == [addr |-> addr, n |-> n, val |-> byte, fill |-> TRUE]

WriteOne(m, w) ==
    [a \in DOMAIN m |->
        IF a >= w.addr /\ a < w.addr + w.n
        THEN (IF w.fill THEN w.val ELSE ByteOf(w.val, a - w.addr))
        ELSE m[a]]

RECURSIVE ApplyWrites(_, _)
ApplyWrites(m, ws) ==
    IF ws = <<>> THEN m ELSE ApplyWrites(WriteOne(m, Head(ws)), Tail(ws))

WriteInArena(w) ==
    w.n = 0 \/ (w.addr >= StartAddress /\ w.addr + w.n <= StartAddress + TotalSize)
WriteInMemory(w) == w.n = 0 \/ (w.addr >= 0 /\ w.addr + w.n <= MemSize)

AllInArena(ws) == \A i \in 1 .. Len(ws) : WriteInArena(ws[i])
AllInMemory(ws) == \A i \in 1 .. Len(ws) : WriteInMemory(ws[i])

Readable(m, addr, n) ==
    /\ addr >= 0
    /\ addr + n <= MemSize
    /\ \A a \in addr .. (addr + n - 1) : m[a] # Uninit

RECURSIVE ReadField(_, _, _)
ReadField(m, addr, n) ==
    IF n = 0 THEN 0 ELSE m[addr] + 256 * ReadField(m, addr + 1, n - 1)

\* ------------------------------------------------------ sizes of metadata
SizeofOffset == 4
SizeofInplaceHeader(pol) ==
    IF pol.StackCheck THEN 2 * SizeofOffset ELSE SizeofOffset
SizeofInplaceArrayHeader == 2 * SizeofOffset
SizeofBoundGuardFront == 2 * SizeofOffset
SizeofBoundGuardBack == SizeofOffset

\* a mutant: the size check too reserves the bytes of a front guard
GetTotalHeaderSizeSizeChecked(pol, headerSize) ==
    headerSize + (IF pol.BoundsCheck \/ pol.SizeCheck THEN SizeofBoundGuardFront ELSE 0)

GetTotalHeaderSize(pol, headerSize) ==
    IF pol.BoundsCheck THEN headerSize + SizeofBoundGuardFront ELSE headerSize

\* ------------------------------------------------------ padding calculator
CalculateAlignedAddress(baseAddress, alignment) ==
    ((baseAddress + alignment - 1) \div alignment) * alignment

\* a mutant: the padding aligns the base address and leaves the header out
CalculateAlignedPaddingWithoutHeader(baseAddress, alignment, headerSize) ==
    CalculateAlignedAddress(baseAddress, alignment) - baseAddress

CalculateAlignedPaddingWithHeader(baseAddress, alignment, headerSize) ==
    CalculateAlignedAddress(baseAddress + headerSize, alignment) - baseAddress

\* ------------------------------------------------------------ allocation
\* lines 281-290: the payload address chosen for an allocation that starts at
\* baseAddress and keeps totalHeaderSize bytes of metadata before the payload
AlignedAddressNoAlign(baseAddress, alignment, totalHeaderSize) ==
    baseAddress + totalHeaderSize

AlignedAddress(baseAddress, alignment, totalHeaderSize) ==
    IF totalHeaderSize > 0
    THEN baseAddress
         + CalculateAlignedPaddingWithHeader(baseAddress, alignment, totalHeaderSize)
    ELSE CalculateAlignedAddress(baseAddress, alignment)

\* lines 294-298: the capacity assertion (TRUE: the allocation may proceed)
SizeCheckNoPadding(pol, currentOffset, padding, size) ==
    pol.SizeCheck => currentOffset + size <= TotalSize

\* line 292: Size totalSizeAfterAllocation = m_CurrentOffset + padding + size
TotalSizeAfterAllocation(currentOffset, padding, size) ==
    (currentOffset + padding + size) % SizeModulus

SizeCheckPasses(pol, currentOffset, padding, size) ==
    pol.SizeCheck
    => TotalSizeAfterAllocation(currentOffset, padding, size) <= TotalSize

OutOfMemoryResult(currentOffset, need) ==
    [outcome |-> "OutOfMemory", ptr |-> NullPtr, startOffset |-> currentOffset,
     endOffset |-> currentOffset, offset |-> currentOffset, writes |-> <<>>,
     need |-> need]

\* a mutant: the new offset counts the payload but not the padding before it
AllocateInternalOffsetWithoutPadding(pol, currentOffset, headerSize, size, alignment) ==
    LET startOffset == currentOffset
        baseAddress == StartAddress + currentOffset
        totalHeaderSize == GetTotalHeaderSize(pol, headerSize)
        alignedAddress == AlignedAddress(baseAddress, alignment, totalHeaderSize)
        padding == alignedAddress - baseAddress
        totalSizeAfterAllocation == currentOffset + size
    IN  IF ~SizeCheckPasses(pol, currentOffset, padding, size)
        THEN OutOfMemoryResult(currentOffset, currentOffset + padding + size)
        ELSE IF pol.BoundsCheck
        THEN LET frontGuardAddress == alignedAddress - totalHeaderSize
                 backGuardAddress == alignedAddress + size
                 newOffset == totalSizeAfterAllocation + SizeofBoundGuardBack
             IN  [outcome |-> "ok", ptr |-> alignedAddress,
                  startOffset |-> startOffset, endOffset |-> newOffset,
                  offset |-> newOffset,
                  writes |-> << FieldWrite(frontGuardAddress, SizeofOffset, currentOffset),
                                FieldWrite(frontGuardAddress + SizeofOffset, SizeofOffset, size),
                                FieldWrite(backGuardAddress, SizeofOffset, currentOffset) >>,
                  need |-> currentOffset + padding + size]
        ELSE [outcome |-> "ok", ptr |-> alignedAddress,
              startOffset |-> startOffset, endOffset |-> totalSizeAfterAllocation,
              offset |-> totalSizeAfterAllocation, writes |-> <<>>,
              need |-> currentOffset + padding + size]

\* StackAllocator::AllocateInternal<headerSize> of the policy-based allocator
AllocateInternal(pol, currentOffset, headerSize, size, alignment) ==
    LET startOffset == currentOffset
        baseAddress == StartAddress + currentOffset
        totalHeaderSize == GetTotalHeaderSize(pol, headerSize)
        alignedAddress == AlignedAddress(baseAddress, alignment, totalHeaderSize)
        padding == alignedAddress - baseAddress
        totalSizeAfterAllocation ==
            TotalSizeAfterAllocation(currentOffset, padding, size)
    IN  IF ~SizeCheckPasses(pol, currentOffset, padding, size)
        THEN OutOfMemoryResult(currentOffset, totalSizeAfterAllocation)
        ELSE IF pol.BoundsCheck
        THEN LET frontGuardAddress == alignedAddress - totalHeaderSize
                 backGuardAddress == alignedAddress + size
                 newOffset == totalSizeAfterAllocation + SizeofBoundGuardBack
             IN  [outcome |-> "ok", ptr |-> alignedAddress,
                  startOffset |-> startOffset, endOffset |-> newOffset,
                  offset |-> newOffset,
                  writes |-> << FieldWrite(frontGuardAddress, SizeofOffset, currentOffset),
                                FieldWrite(frontGuardAddress + SizeofOffset, SizeofOffset, size),
                                FieldWrite(backGuardAddress, SizeofOffset, currentOffset) >>,
                  need |-> totalSizeAfterAllocation]
        ELSE [outcome |-> "ok", ptr |-> alignedAddress,
              startOffset |-> startOffset, endOffset |-> totalSizeAfterAllocation,
              offset |-> totalSizeAfterAllocation, writes |-> <<>>,
              need |-> totalSizeAfterAllocation]

\* StackAllocator::AllocateInternal<headerSize> of the legacy allocator: the
\* back guard is written but the offset does not cover it
AllocateInternalLegacy(pol, currentOffset, headerSize, size, alignment) ==
    LET baseAddress == StartAddress + currentOffset
        totalHeaderSize == GetTotalHeaderSize(pol, headerSize)
        alignedAddress == AlignedAddress(baseAddress, alignment, totalHeaderSize)
        padding == alignedAddress - baseAddress
        totalSizeAfterAllocation ==
            TotalSizeAfterAllocation(currentOffset, padding, size)
    IN  IF ~SizeCheckPasses(pol, currentOffset, padding, size)
        THEN OutOfMemoryResult(currentOffset, totalSizeAfterAllocation)
        ELSE [outcome |-> "ok", ptr |-> alignedAddress,
              startOffset |-> currentOffset, endOffset |-> totalSizeAfterAllocation,
              offset |-> totalSizeAfterAllocation,
              writes |->
                IF pol.BoundsCheck
                THEN LET frontGuardAddress == alignedAddress - totalHeaderSize
                         backGuardAddress == alignedAddress + size
                     IN  << FieldWrite(frontGuardAddress, SizeofOffset, currentOffset),
                            FieldWrite(frontGuardAddress + SizeofOffset, SizeofOffset, size),
                            FieldWrite(backGuardAddress, SizeofOffset, currentOffset) >>
                ELSE <<>>,
              need |-> totalSizeAfterAllocation]

AllocateInternalOf(var, pol, currentOffset, headerSize, size, alignment) ==
    IF var = "Policy"
    THEN AllocateInternal(pol, currentOffset, headerSize, size, alignment)
    ELSE AllocateInternalLegacy(pol, currentOffset, headerSize, size, alignment)

\* AllocateHeader<InplaceHeader>(ptr, startOffset, endOffset): the header sits
\* directly before the payload; SafeHeaderBase::endOffset is its first member
InplaceHeaderWrites(pol, ptr, startOffset, endOffset) ==
    IF pol.StackCheck
    THEN << FieldWrite(ptr - 2 * SizeofOffset, SizeofOffset, endOffset),
            FieldWrite(ptr - SizeofOffset, SizeofOffset, startOffset) >>
    ELSE << FieldWrite(ptr - SizeofOffset, SizeofOffset, startOffset) >>

\* AllocateHeader<InplaceArrayHeader>(ptr, startOffset, objectCount)
InplaceArrayHeaderWrites(ptr, startOffset, objectCount) ==
    << FieldWrite(ptr - 2 * SizeofOffset, SizeofOffset, startOffset),
       FieldWrite(ptr - SizeofOffset, SizeofOffset, objectCount) >>

\* placement new of the object(s) into the payload
ConstructWrites(ptr, bytes) == << FillWrite(ptr, bytes, ObjectByte) >>

\* A request: [kind, size (bytes of one object), count, align]
Request(kind, size, count, align) ==
    [kind |-> kind, size |-> size, count |-> count, align |-> align]

\* The four allocating entry points: the internal allocation followed by the
\* header write (raw pointers) or the constructor calls (handles)
AllocCall(var, pol, currentOffset, req) ==
    LET bytes == (req.count * req.size) % SizeModulus
        headerSize == CASE req.kind = "Allocate" -> SizeofInplaceHeader(pol)
                        [] req.kind = "AllocateArray" -> SizeofInplaceArrayHeader
                        [] OTHER -> 0
        r == AllocateInternalOf(var, pol, currentOffset, headerSize, bytes, req.align)
        extra == CASE req.kind = "Allocate" ->
                        InplaceHeaderWrites(pol, r.ptr, r.startOffset, r.endOffset)
                   [] req.kind = "AllocateArray" ->
                        InplaceArrayHeaderWrites(r.ptr, r.startOffset, req.count)
                   [] OTHER -> ConstructWrites(r.ptr, bytes)
    IN  IF r.outcome = "ok" THEN [r EXCEPT !.writes = r.writes \o extra] ELSE r

\* ---------------------------------------------------------- deallocation
\* StackAllocator::OwnsAddress of the policy-based allocator
OwnsAddress(address) ==
    address >= StartAddress /\ address <= StartAddress + TotalSize

\* StackAllocatorBase::OwnsAddress of the legacy allocator
OwnsAddressBase(address) ==
    address >= StartAddress /\ address < StartAddress + TotalSize

\* a mutant: the ownership assertion placed before the null assertion
GetAddressFromPtrOwnershipFirst(var, pol, ptr) ==
    IF pol.OwnershipCheck
       /\ ~(IF var = "Policy" THEN OwnsAddress(ptr) ELSE OwnsAddressBase(ptr))
    THEN "NotOwnedPointer"
    ELSE IF pol.NullCheck /\ ptr = NullPtr THEN "NullPointerDeallocation"
    ELSE "ok"

\* StackAllocator::GetAddressFromPtr: the assertion that fails, or "ok"
GetAddressFromPtr(var, pol, ptr) ==
    IF pol.NullCheck /\ ptr = NullPtr THEN "NullPointerDeallocation"
    ELSE IF pol.OwnershipCheck
            /\ ~(IF var = "Policy" THEN OwnsAddress(ptr) ELSE OwnsAddressBase(ptr))
    THEN "NotOwnedPointer"
    ELSE "ok"

\* the outcome of a deallocating call: the assertion that failed ("ok": none,
\* "UB": a read of memory that is not there or was never written), the
\* offset afterwards, and whether header or guard memory was read
DeallocResult(outcome, offset, memRead) ==
    [outcome |-> outcome, offset |-> offset, memRead |-> memRead]

\* a mutant: roll back to the end of the padding instead of the start offset
RollbackOffsetEnd(header) == header.endOffset

\* a mutant: the rollback leaves a tombstone where the allocation began
RollbackOffsetPastTombstone(header) == header.startOffset + SizeofOffset

\* line 325: the offset a deallocation rolls back to
RollbackOffset(header) == header.startOffset

\* a mutant: the LIFO assertion compiled in whatever the policy
StackCheckUnconditional(pol, header, currentOffset) ==
    header.endOffset = currentOffset

\* lines 327-331: the LIFO assertion
StackCheckPasses(pol, header, currentOffset) ==
    pol.StackCheck => header.endOffset = currentOffset

\* a mutant: the offset is rolled back as soon as the LIFO assertion has
\* passed, before the bound guards are compared
DeallocateInternalRollbackFirst(pol, currentOffset, m, address, addressMarker, header) ==
    LET newOffset == RollbackOffset(header)
        frontGuardAddress == addressMarker - SizeofBoundGuardFront
    IN  IF ~StackCheckPasses(pol, header, currentOffset)
        THEN DeallocResult("OutOfOrderDeallocation", currentOffset, TRUE)
        ELSE IF ~pol.BoundsCheck THEN DeallocResult("ok", newOffset, TRUE)
        ELSE IF ~Readable(m, frontGuardAddress, SizeofBoundGuardFront)
        THEN DeallocResult("UB", newOffset, TRUE)
        ELSE LET frontOffset == ReadField(m, frontGuardAddress, SizeofOffset)
                 allocationSize ==
                     ReadField(m, frontGuardAddress + SizeofOffset, SizeofOffset)
                 backGuardAddress == address + allocationSize
             IN  IF frontOffset # newOffset
                 THEN DeallocResult("CorruptionDetected", newOffset, TRUE)
                 ELSE IF ~Readable(m, backGuardAddress, SizeofBoundGuardBack)
                 THEN DeallocResult("UB", newOffset, TRUE)
                 ELSE IF ReadField(m, backGuardAddress, SizeofOffset) # newOffset
                 THEN DeallocResult("CorruptionDetected", newOffset, TRUE)
                 ELSE DeallocResult("ok", newOffset, TRUE)

\* StackAllocator::DeallocateInternal of the policy-based allocator
DeallocateInternal(pol, currentOffset, m, address, addressMarker, header) ==
    LET newOffset == RollbackOffset(header)
        frontGuardAddress == addressMarker - SizeofBoundGuardFront
    IN  IF ~StackCheckPasses(pol, header, currentOffset)
        THEN DeallocResult("OutOfOrderDeallocation", currentOffset, TRUE)
        ELSE IF ~pol.BoundsCheck THEN DeallocResult("ok", newOffset, TRUE)
        ELSE IF ~Readable(m, frontGuardAddress, SizeofBoundGuardFront)
        THEN DeallocResult("UB", currentOffset, TRUE)
        ELSE LET frontOffset == ReadField(m, frontGuardAddress, SizeofOffset)
                 allocationSize ==
                     ReadField(m, frontGuardAddress + SizeofOffset, SizeofOffset)
                 backGuardAddress == address + allocationSize
             IN  IF frontOffset # newOffset
                 THEN DeallocResult("CorruptionDetected", currentOffset, TRUE)
                 ELSE IF ~Readable(m, backGuardAddress, SizeofBoundGuardBack)
                 THEN DeallocResult("UB", currentOffset, TRUE)
                 ELSE IF ReadField(m, backGuardAddress, SizeofOffset) # newOffset
                 THEN DeallocResult("CorruptionDetected", currentOffset, TRUE)
                 ELSE DeallocResult("ok", newOffset, TRUE)

\* StackAllocator::DeallocateInternal of the legacy allocator: backGuard is
\* cast from frontGuardAddress, so the "back guard" it compares is the front
\* guard's first member
DeallocateInternalLegacy(pol, currentOffset, m, address, addressMarker, header) ==
    LET newOffset == RollbackOffset(header)
        frontGuardAddress == addressMarker - SizeofBoundGuardFront
    IN  IF ~StackCheckPasses(pol, header, currentOffset)
        THEN DeallocResult("OutOfOrderDeallocation", currentOffset, TRUE)
        ELSE IF ~pol.BoundsCheck THEN DeallocResult("ok", newOffset, TRUE)
        ELSE IF ~Readable(m, frontGuardAddress, SizeofBoundGuardFront)
        THEN DeallocResult("UB", currentOffset, TRUE)
        ELSE LET frontOffset == ReadField(m, frontGuardAddress, SizeofOffset)
                 backOffset == ReadField(m, frontGuardAddress, SizeofOffset)
             IN  IF frontOffset # newOffset \/ backOffset # newOffset
                 THEN DeallocResult("CorruptionDetected", currentOffset, TRUE)
                 ELSE DeallocResult("ok", newOffset, TRUE)

DeallocateInternalOf(var, pol, currentOffset, m, address, addressMarker, header) ==
    IF var = "Policy"
    THEN DeallocateInternal(pol, currentOffset, m, address, addressMarker, header)
    ELSE DeallocateInternalLegacy(pol, currentOffset, m, address, addressMarker, header)

StackHeader(startOffset, endOffset) ==
    [startOffset |-> startOffset, endOffset |-> endOffset]

\* GetHeaderFromPtr<InplaceHeader>: without StackCheck the header has no
\* endOffset member (it is never looked at)
ReadInplaceHeader(pol, m, headerAddress) ==
    IF pol.StackCheck
    THEN StackHeader(ReadField(m, headerAddress + SizeofOffset, SizeofOffset),
                     ReadField(m, headerAddress, SizeofOffset))
    ELSE StackHeader(ReadField(m, headerAddress, SizeofOffset), 0)

\* GetEndOffset / Internal::GetArrayEndOffset
GetArrayEndOffset(ptrAddress, objectCount, objectSize) ==
    (ptrAddress - StartAddress) + objectCount * objectSize

\* Deallocate(void* ptr)
DeallocateRaw(var, pol, currentOffset, m, ptr) ==
    LET checked == GetAddressFromPtr(var, pol, ptr)
        addressMarker == ptr - SizeofInplaceHeader(pol)
    IN  IF checked # "ok" THEN DeallocResult(checked, currentOffset, FALSE)
        ELSE IF ~Readable(m, addressMarker, SizeofInplaceHeader(pol))
        THEN DeallocResult("UB", currentOffset, TRUE)
        ELSE DeallocateInternalOf(var, pol, currentOffset, m, ptr, addressMarker,
                                  ReadInplaceHeader(pol, m, addressMarker))

\* a mutant: the handle overload steps the address marker back over an
\* in-place header, as the pointer overload does
DeallocateHandleSteppingBack(var, pol, currentOffset, m, ptr, header) ==
    LET checked == GetAddressFromPtr(var, pol, ptr)
        addressMarker == ptr - SizeofInplaceHeader(pol)
    IN  IF checked # "ok" THEN DeallocResult(checked, currentOffset, FALSE)
        ELSE DeallocateInternalOf(var, pol, currentOffset, m, ptr, addressMarker,
                                  header)

\* Deallocate(const StackPtr<void>& ptr): the header comes from the handle
DeallocateHandle(var, pol, currentOffset, m, ptr, header) ==
    LET checked == GetAddressFromPtr(var, pol, ptr)
        r == DeallocateInternalOf(var, pol, currentOffset, m, ptr, ptr, header)
    IN  IF checked # "ok" THEN DeallocResult(checked, currentOffset, FALSE)
        ELSE [r EXCEPT !.memRead = pol.BoundsCheck /\ StackCheckPasses(pol, header, currentOffset)]

\* DeallocateArray(void* ptr, objectSize)
DeallocateArrayRaw(var, pol, currentOffset, m, ptr, objectSize) ==
    LET checked == GetAddressFromPtr(var, pol, ptr)
        addressMarker == ptr - SizeofInplaceArrayHeader
    IN  IF checked # "ok" THEN DeallocResult(checked, currentOffset, FALSE)
        ELSE IF ~Readable(m, addressMarker, SizeofInplaceArrayHeader)
        THEN DeallocResult("UB", currentOffset, TRUE)
        ELSE LET startOffset == ReadField(m, addressMarker, SizeofOffset)
                 count == ReadField(m, addressMarker + SizeofOffset, SizeofOffset)
             IN  DeallocateInternalOf(var, pol, currentOffset, m, ptr, addressMarker,
                     StackHeader(startOffset, GetArrayEndOffset(ptr, count, objectSize)))

\* DeallocateArray(const StackArrayPtr<void>& ptr, objectSize)
DeallocateArrayHandle(var, pol, currentOffset, m, ptr, startOffset, count, objectSize) ==
    LET checked == GetAddressFromPtr(var, pol, ptr)
        header == StackHeader(startOffset, GetArrayEndOffset(ptr, count, objectSize))
        r == DeallocateInternalOf(var, pol, currentOffset, m, ptr, ptr, header)
    IN  IF checked # "ok" THEN DeallocResult(checked, currentOffset, FALSE)
        ELSE [r EXCEPT !.memRead = pol.BoundsCheck /\ StackCheckPasses(pol, header, currentOffset)]

\* ------------------------------------------------- destructor invocations
\* What a deleting call does besides the rollback, in program order:
\* Deallocated marks the return of Deallocate / DeallocateArray, Destruct(i)
\* the invocation of ~Object() on element i of the object or array.
Destruct(index) == [ev |-> "destruct", index |-> index]
Deallocated == [ev |-> "dealloc", index |-> 0 - 1]

\* Internal::DestructArray of the policy-based allocator: every element, last
\* to first
RECURSIVE DestructArray(_)
DestructArray(objectCount) ==
    IF objectCount = 0 THEN <<>>
    ELSE <<Destruct(objectCount - 1)>> \o DestructArray(objectCount - 1)

\* the loop of the legacy DestructArray from the value i has when its
\* condition "i-- > 0" is evaluated
RECURSIVE DestructArrayLoop(_)
DestructArrayLoop(i) ==
    IF i > 0 THEN <<Destruct(i - 1)>> \o DestructArrayLoop(i - 1) ELSE <<>>

\* StackAllocator::DestructArray of the legacy allocator:
\* for (Size i = objectCount - 1; i-- > 0;) ptr[i].~Object();
\* With objectCount = 0 the unsigned i starts at 2^w - 1 and the first object
\* destructed is ptr[2^w - 2], two objects before the array.
DestructArrayLegacy(objectCount) ==
    IF objectCount = 0 THEN <<Destruct(0 - 2)>>
    ELSE DestructArrayLoop(objectCount - 1)

\* the destructor is invoked on what is no object of the client: through a
\* pointer no allocation returned, or by the legacy loop that has left the
\* array (undefined behaviour: the process crashes or carries on)
DestructorWild(var, op, target, objectCount) ==
    \/ op = "Delete" /\ target = 0
    \/ op = "DeleteArray" /\ var = "Legacy" /\ target # 0 /\ objectCount = 0

\* StackAllocatorSafe::Delete invokes the destructor before Deallocate, the
\* Delete of the other two allocators after it
DestructsFirst(var, op) == var = "Safe" /\ op = "Delete"

\* the events of one deallocating call
DeleteEvents(var, op, outcome, objectCount) ==
    CASE op = "Delete" ->
            IF DestructsFirst(var, op)
            THEN <<Destruct(0)>> \o (IF outcome = "ok" THEN <<Deallocated>> ELSE <<>>)
            ELSE IF outcome = "ok" THEN <<Deallocated, Destruct(0)>> ELSE <<>>
      [] op = "DeleteArray" ->
            IF outcome # "ok" THEN <<>>
            ELSE <<Deallocated>> \o (IF var = "Legacy"
                                     THEN DestructArrayLegacy(objectCount)
                                     ELSE DestructArray(objectCount))
      [] OTHER -> IF outcome = "ok" THEN <<Deallocated>> ELSE <<>>

\* the indices the destructor was invoked on, in order
Destructed(events) ==
    LET d == SelectSeq(events, LAMBDA e : e.ev = "destruct")
    IN  [i \in 1 .. Len(d) |-> d[i].index]

\* ------------------------------------------------------------ the machine
NoOp == [op |-> "none", outcome |-> "ok", target |-> 0, top |-> FALSE,
         ptr |-> NullPtr, pre |-> 0, need |-> 0, memRead |-> FALSE,
         req |-> Request("none", 0, 0, 1), allocPre |-> 0, allocEnd |-> 0,
         corrupted |-> "none", events |-> <<>>]

InitState(var, policies) ==
    /\ variant = var
    /\ policy \in policies
    /\ m_CurrentOffset = 0
    /\ usedSize = 0
    /\ mem = [a \in Addresses |-> Uninit]
    /\ live = <<>>
    /\ lastOp = NoOp
    /\ halted = FALSE
    /\ discipline = "allocating"
    /\ trace = [afterReset |-> FALSE, valid |-> TRUE, calls |-> <<>>]
    /\ counters = [ops |-> 0, allocs |-> 0, corrupts |-> 0, resets |-> 0]
    /\ m_Mutex = 0
    /\ threads = [t \in Threads |-> <<>>]

InitWith(var) == InitState(var, SequentialPolicies)

\* a call made by the one client thread of the sequential specifications
Sequential == UNCHANGED <<m_Mutex, threads>>

Init == InitWith("Policy")
InitLegacy == InitWith("Legacy")

\* a mutant: the offset is stored but the used size is not reported
SetCurrentOffsetOnly(offset) ==
    /\ m_CurrentOffset' = offset
    /\ usedSize' = usedSize

\* StackAllocator::SetCurrentOffset
SetCurrentOffset(offset) ==
    /\ m_CurrentOffset' = offset
    /\ usedSize' = offset

\* the process stops: a failed assertion aborts it, a wild access crashes it
Halt(op) ==
    /\ halted' = TRUE
    /\ lastOp' = op
    /\ UNCHANGED <<variant, policy, m_CurrentOffset, usedSize, mem, live,
                   discipline>>

\* the process stops inside a deallocating call: the offset and the used size
\* keep what the call had made of them when it stopped
HaltAt(op, offset) ==
    /\ halted' = TRUE
    /\ lastOp' = op
    /\ SetCurrentOffset(offset)
    /\ UNCHANGED <<variant, policy, mem, live, discipline>>

AllocOp(req, r) ==
    [op |-> req.kind, outcome |-> r.outcome, target |-> 0, top |-> FALSE,
     ptr |-> r.ptr, pre |-> m_CurrentOffset, need |-> r.need, memRead |-> FALSE,
     req |-> req, allocPre |-> m_CurrentOffset, allocEnd |-> r.endOffset,
     corrupted |-> "none", events |-> <<>>]

LiveRecord(req, r) ==
    [kind |-> req.kind, ptr |-> r.ptr, startOffset |-> r.startOffset,
     endOffset |-> r.endOffset, count |-> req.count, size |-> req.size,
     align |-> req.align, pre |-> m_CurrentOffset, post |-> r.offset,
     corrupted |-> "none"]

CallRecord(req, r) ==
    [req |-> req, outcome |-> r.outcome, startOffset |-> r.startOffset,
     ptr |-> r.ptr, endOffset |-> r.endOffset]

\* one allocating call, whole: internal allocation, guard and header writes,
\* constructor calls.  A write outside the arena is undefined behaviour: it
\* lands in the neighbouring memory or the process crashes.
AllocStep(kind, size, count, align) ==
    /\ ~halted
    /\ Sequential
    /\ counters.ops < MaxOps
    /\ counters.allocs < MaxAllocs
    /\ counters' = [counters EXCEPT !.ops = @ + 1, !.allocs = @ + 1]
    /\ LET req == Request(kind, size, count, align)
           r == AllocCall(variant, policy, m_CurrentOffset, req)
       IN  IF r.outcome # "ok"
           THEN /\ Halt(AllocOp(req, r))
                /\ trace' = IF trace.valid
                            THEN [trace EXCEPT !.calls = Append(@, CallRecord(req, r))]
                            ELSE trace
           ELSE \/ /\ AllInMemory(r.writes)
                   /\ mem' = ApplyWrites(mem, r.writes)
                   /\ SetCurrentOffset(r.offset)
                   /\ live' = Append(live, LiveRecord(req, r))
                   /\ lastOp' = AllocOp(req, r)
                   /\ discipline' = IF discipline = "allocating"
                                    THEN "allocating" ELSE "other"
                   /\ trace' = IF trace.valid
                               THEN [trace EXCEPT !.calls = Append(@, CallRecord(req, r))]
                               ELSE trace
                   /\ UNCHANGED <<variant, policy, halted>>
                \/ /\ ~AllInArena(r.writes)
                   /\ Halt([AllocOp(req, r) EXCEPT !.outcome = "UB"])
                   /\ UNCHANGED trace

Allocate ==
    \E type \in ObjectTypes : AllocStep("Allocate", type[1], 1, type[2])

New ==
    \E type \in ObjectTypes :
        AllocStep("New", type[1], 1,
                  IF variant = "Safe" THEN DefaultAlignment ELSE type[2])

AllocateArray ==
    \E count \in Counts, type \in ArrayTypes :
        AllocStep("AllocateArray", type[1], count, type[2])

NewArray ==
    \E count \in Counts, type \in ArrayTypes :
        AllocStep("NewArray", type[1], count, type[2])

DeallocOp(op, r, target, ptr) ==
    [op |-> op, outcome |-> r.outcome, target |-> target,
     top |-> (target # 0 /\ target = Len(live)),
     ptr |-> ptr, pre |-> m_CurrentOffset, need |-> 0, memRead |-> r.memRead,
     req |-> IF target = 0 THEN Request("none", 0, 0, 1)
             ELSE Request(live[target].kind, live[target].size,
                          live[target].count, live[target].align),
     allocPre |-> IF target = 0 THEN 0 ELSE live[target].pre,
     allocEnd |-> IF target = 0 THEN 0 ELSE live[target].endOffset,
     corrupted |-> IF target = 0 THEN "none" ELSE live[target].corrupted,
     events |-> DeleteEvents(variant, op, r.outcome,
                             IF target = 0 THEN 0 ELSE live[target].count)]

\* one deallocating call, whole.  target is the index in live of the
\* allocation whose pointer is passed, 0 for a pointer no allocation returned.
\* A successful rollback releases the target, every later allocation and
\* every allocation that reaches above the new offset.
DeallocStep(op, r, target, ptr) ==
    /\ ~halted
    /\ Sequential
    /\ counters.ops < MaxOps
    /\ counters' = [counters EXCEPT !.ops = @ + 1]
    /\ LET first == DestructsFirst(variant, op)
           wild == DestructorWild(variant, op, target,
                                  IF target = 0 THEN 0 ELSE live[target].count)
       IN  \E crash \in IF wild /\ (first \/ r.outcome = "ok")
                        THEN BOOLEAN ELSE {FALSE} :
             IF r.outcome # "ok" \/ (crash /\ first)
             THEN /\ HaltAt([DeallocOp(op, r, target, ptr) EXCEPT
                               !.outcome = IF crash THEN "UB" ELSE @,
                               !.events = IF crash THEN <<Destruct(0)>> ELSE @],
                            IF crash THEN m_CurrentOffset ELSE r.offset)
                  /\ UNCHANGED trace
             ELSE /\ SetCurrentOffset(r.offset)
                  /\ live' = SelectSeq(IF target = 0 THEN live
                                        ELSE SubSeq(live, 1, target - 1),
                                        LAMBDA a : a.post <= r.offset)
                  /\ halted' = crash
                  /\ lastOp' = [DeallocOp(op, r, target, ptr) EXCEPT
                                   !.outcome = IF crash THEN "UB" ELSE @]
                  /\ discipline' = IF target # 0 /\ target = Len(live)
                                      /\ discipline \in {"allocating", "unwinding"}
                                   THEN "unwinding" ELSE "other"
                  /\ trace' = [trace EXCEPT !.valid = FALSE, !.calls = <<>>]
                  /\ UNCHANGED <<variant, policy, mem>>

\* Deallocate(void*) / Delete(Object*)
Deallocate ==
    \/ \E i \in 1 .. Len(live) :
          /\ live[i].kind = "Allocate"
          /\ DeallocStep("Deallocate",
                 DeallocateRaw(variant, policy, m_CurrentOffset, mem, live[i].ptr),
                 i, live[i].ptr)
    \/ \E p \in ForeignPtrs :
          DeallocStep("Deallocate",
              DeallocateRaw(variant, policy, m_CurrentOffset, mem, p), 0, p)

\* Delete(StackPtr<Object>) / Deallocate(const StackPtr<void>&)
Delete ==
    \/ \E i \in 1 .. Len(live) :
          /\ live[i].kind = "New"
          /\ DeallocStep("Delete",
                 DeallocateHandle(variant, policy, m_CurrentOffset, mem, live[i].ptr,
                     StackHeader(live[i].startOffset, live[i].endOffset)),
                 i, live[i].ptr)
    \/ \E p \in ForeignPtrs :
          DeallocStep("Delete",
              DeallocateHandle(variant, policy, m_CurrentOffset, mem, p,
                               StackHeader(0, 0)), 0, p)

\* DeallocateArray(void*, objectSize) / DeleteArray(Object*)
DeallocateArray ==
    \/ \E i \in 1 .. Len(live) :
          /\ live[i].kind = "AllocateArray"
          /\ DeallocStep("DeallocateArray",
                 DeallocateArrayRaw(variant, policy, m_CurrentOffset, mem, live[i].ptr,
                                    live[i].size),
                 i, live[i].ptr)
    \/ DeallocStep("DeallocateArray",
           DeallocateArrayRaw(variant, policy, m_CurrentOffset, mem, NullPtr, 8),
           0, NullPtr)

\* DeleteArray(StackArrayPtr<Object>) / DeallocateArray(const StackArrayPtr<void>&, objectSize)
DeleteArray ==
    \/ \E i \in 1 .. Len(live) :
          /\ live[i].kind = "NewArray"
          /\ DeallocStep("DeleteArray",
                 DeallocateArrayHandle(variant, policy, m_CurrentOffset, mem, live[i].ptr,
                     live[i].startOffset, live[i].count, live[i].size),
                 i, live[i].ptr)
    \/ DeallocStep("DeleteArray",
           DeallocateArrayHandle(variant, policy, m_CurrentOffset, mem, NullPtr, 0, 0, 8),
           0, NullPtr)

\* a mutant: Reset reports an empty allocator but leaves the offset in place
ResetUsedSizeOnly ==
    /\ ~halted
    /\ Sequential
    /\ counters.ops < MaxOps
    /\ counters.resets < MaxResets
    /\ counters' = [counters EXCEPT !.ops = @ + 1, !.resets = @ + 1]
    /\ usedSize' = 0
    /\ m_CurrentOffset' = m_CurrentOffset
    /\ live' = <<>>
    /\ lastOp' = [NoOp EXCEPT !.op = "Reset", !.pre = m_CurrentOffset]
    /\ discipline' = "other"
    /\ trace' = [afterReset |-> TRUE, valid |-> TRUE, calls |-> <<>>]
    /\ UNCHANGED <<variant, policy, mem, halted>>

\* StackAllocator::Reset
Reset ==
    /\ ~halted
    /\ Sequential
    /\ counters.ops < MaxOps
    /\ counters.resets < MaxResets
    /\ counters' = [counters EXCEPT !.ops = @ + 1, !.resets = @ + 1]
    /\ SetCurrentOffset(0)
    /\ live' = <<>>
    /\ lastOp' = [NoOp EXCEPT !.op = "Reset", !.pre = m_CurrentOffset]
    /\ discipline' = "other"
    /\ trace' = [afterReset |-> TRUE, valid |-> TRUE, calls |-> <<>>]
    /\ UNCHANGED <<variant, policy, mem, halted>>

\* where the guards of a live allocation are
HeaderSizeOf(pol, kind) ==
    CASE kind = "Allocate" -> SizeofInplaceHeader(pol)
      [] kind = "AllocateArray" -> SizeofInplaceArrayHeader
      [] OTHER -> 0
FrontGuardAddressOf(pol, a) ==
    a.ptr - GetTotalHeaderSize(pol, HeaderSizeOf(pol, a.kind))
BackGuardAddressOf(a) == a.ptr + a.count * a.size

\* The client writes outside the payload of a live allocation: past its end
\* (over the back guard) or before its header (over the front guard).
Corrupt ==
    /\ ~halted
    /\ Sequential
    /\ policy.BoundsCheck
    /\ counters.ops < MaxOps
    /\ counters.corrupts < MaxCorrupt
    /\ counters' = [counters EXCEPT !.ops = @ + 1, !.corrupts = @ + 1]
    /\ \E i \in 1 .. Len(live), region \in {"front", "back"} :
          LET w == IF region = "back"
                   THEN FillWrite(BackGuardAddressOf(live[i]), SizeofBoundGuardBack,
                                  GarbageByte)
                   ELSE FillWrite(FrontGuardAddressOf(policy, live[i]),
                                  SizeofBoundGuardFront, GarbageByte)
          IN  /\ live[i].corrupted = "none"
              /\ WriteInMemory(w)
              /\ mem' = WriteOne(mem, w)
              /\ live' = [live EXCEPT ![i].corrupted = region]
              /\ lastOp' = [NoOp EXCEPT !.op = "Corrupt", !.target = i,
                                        !.pre = m_CurrentOffset]
    /\ discipline' = "other"
    /\ UNCHANGED <<variant, policy, m_CurrentOffset, usedSize, halted, trace>>

Next ==
    \/ Allocate
    \/ New
    \/ AllocateArray
    \/ NewArray
    \/ Deallocate
    \/ Delete
    \/ DeallocateArray
    \/ DeleteArray
    \/ Reset
    \/ Corrupt

AllocOps == {"Allocate", "New", "AllocateArray", "NewArray"}
DeallocOps == {"Deallocate", "Delete", "DeallocateArray", "DeleteArray"}

\* the bytes the last call asked for
RequestedBytes == lastOp.req.count * lastOp.req.size

Spec == Init /\ [][Next]_vars
SpecLegacy == InitLegacy /\ [][Next]_vars

\* StackAllocatorSafe: every check of the tests enabled, objects only
InitSafe ==
    /\ InitWith("Safe")
    /\ policy.SizeCheck /\ policy.StackCheck
    /\ policy.NullCheck /\ policy.OwnershipCheck

NextSafe ==
    \/ New
    \/ Delete
    \/ Reset
    \/ Corrupt

SpecSafe == InitSafe /\ [][NextSafe]_vars

\* the allocator driven by allocating calls only: the states in which the
\* deallocation paths are compared as functions of the state
NextAllocating ==
    \/ Allocate
    \/ New
    \/ AllocateArray
    \/ NewArray

SpecAllocating == Init /\ [][NextAllocating]_vars

\* ------------------------------------------------- several client threads
\* MultithreadedPolicy<policy>::LockGuard over ::Mutex: a mutual-exclusion
\* lock when ThreadSafe is set, nothing otherwise.  The guard's constructor
\* returns once the mutex is free and makes the thread its owner; the guard's
\* destructor frees it.
LockGuardAcquirable(pol, owner) == pol.ThreadSafe => owner = 0

LockGuardAcquire(pol, owner, t) == IF pol.ThreadSafe THEN t ELSE owner

LockGuardRelease(pol, owner, t) ==
    IF pol.ThreadSafe /\ owner = t THEN 0 ELSE owner

\* a mutant: AllocateInternal without the guard of its first line
AllocateInternalUnguarded(pol, owner) == TRUE

\* LockGuard<Mutex> guard(m_MultithreadedPolicy.m_Mutex), the first line of
\* AllocateInternal and of DeallocateInternal
InternalGuard(pol, owner) == LockGuardAcquirable(pol, owner)

\* a mutant: the guard outlives the function that declares it
InternalReturnKeepingGuard(pol, owner, t) == owner

\* a mutant: the guard is released on the paths that pass the size
\* assertion only
InternalReturnWhenSizeChecked(pol, owner, t) ==
    IF pol.SizeCheck THEN LockGuardRelease(pol, owner, t) ELSE owner

\* the return of AllocateInternal / DeallocateInternal ends the guard's scope
InternalReturn(pol, owner, t) == LockGuardRelease(pol, owner, t)

\* a call in progress: where it is, what was asked, what it has got so far
Frame(pc, req, startOffset, endOffset, ptr) ==
    [pc |-> pc, req |-> req, startOffset |-> startOffset,
     endOffset |-> endOffset, ptr |-> ptr]

Top(t) == threads[t][Len(threads[t])]
Push(t, frame) == threads' = [threads EXCEPT ![t] = Append(@, frame)]
Pop(t) == threads' = [threads EXCEPT ![t] = SubSeq(@, 1, Len(@) - 1)]
SetTop(t, frame) == threads' = [threads EXCEPT ![t][Len(threads[t])] = frame]

\* thread t is in client code, or in a constructor that New / NewArray runs
InClientCode(t) == threads[t] = <<>>
InConstructor(t) ==
    /\ threads[t] # <<>>
    /\ Top(t).pc = "construct"
    /\ Top(t).req.kind \in {"New", "NewArray"}
    /\ Top(t).req.count > 0

\* the object at live[i] is still being constructed by some thread
UnderConstruction(i) ==
    \E t \in Threads : \E k \in 1 .. Len(threads[t]) :
        /\ threads[t][k].pc = "construct"
        /\ threads[t][k].startOffset = live[i].startOffset
        /\ threads[t][k].ptr = live[i].ptr

\* AllocateInternal, line 271 to 273: the guard is constructed and the
\* current offset is read
ThreadEnter(t, kind, size, count, align) ==
    /\ ~halted
    /\ InClientCode(t) \/ (InConstructor(t) /\ Len(threads[t]) < MaxDepth)
    /\ counters.ops < MaxOps
    /\ counters.allocs < MaxAllocs
    /\ InternalGuard(policy, m_Mutex)
    /\ m_Mutex' = LockGuardAcquire(policy, m_Mutex, t)
    /\ Push(t, Frame("AllocateInternal", Request(kind, size, count, align),
                      m_CurrentOffset, m_CurrentOffset, NullPtr))
    /\ counters' = [counters EXCEPT !.ops = @ + 1, !.allocs = @ + 1]
    /\ UNCHANGED <<variant, policy, m_CurrentOffset, usedSize, mem, live, lastOp,
                   halted, discipline, trace>>

ThreadAllocate(t) ==
    \E type \in ObjectTypes : ThreadEnter(t, "Allocate", type[1], 1, type[2])

ThreadNew(t) ==
    \E type \in ObjectTypes : ThreadEnter(t, "New", type[1], 1, type[2])

ThreadNewArray(t) ==
    \E count \in Counts, type \in ArrayTypes :
        ThreadEnter(t, "NewArray", type[1], count, type[2])

\* AllocateInternal, the rest: padding, size check, guards, SetCurrentOffset,
\* and the return, which destroys the guard
\* (req, r and op are the locals of the call, each computed once)
ThreadAllocateInternal(t) ==
    /\ ~halted
    /\ threads[t] # <<>>
    /\ Top(t).pc = "AllocateInternal"
    /\ \E req \in {Top(t).req} :
       \E r \in {AllocateInternalOf(variant, policy, Top(t).startOffset,
                                   HeaderSizeOf(policy, req.kind),
                                   req.count * req.size, req.align)} :
       \E op \in {[AllocOp(req, r) EXCEPT !.pre = Top(t).startOffset,
                                         !.allocPre = Top(t).startOffset]} :
           IF r.outcome # "ok"
           THEN /\ Halt(op)
                /\ trace' = IF trace.valid
                            THEN [trace EXCEPT !.calls = Append(@, CallRecord(req, r))]
                            ELSE trace
                /\ UNCHANGED <<m_Mutex, threads>>
           ELSE \/ /\ AllInMemory(r.writes)
                   /\ mem' = ApplyWrites(mem, r.writes)
                   /\ SetCurrentOffset(r.offset)
                   /\ live' = Append(live, [LiveRecord(req, r) EXCEPT
                                              !.pre = Top(t).startOffset])
                   /\ lastOp' = op
                   /\ discipline' = IF discipline = "allocating"
                                    THEN "allocating" ELSE "other"
                   /\ trace' = IF trace.valid
                               THEN [trace EXCEPT !.calls = Append(@, CallRecord(req, r))]
                               ELSE trace
                   /\ m_Mutex' = InternalReturn(policy, m_Mutex, t)
                   /\ SetTop(t, Frame("construct", req, r.startOffset, r.endOffset, r.ptr))
                   /\ UNCHANGED <<variant, policy, halted>>
                \/ /\ ~AllInArena(r.writes)
                   /\ Halt([op EXCEPT !.outcome = "UB"])
                   /\ UNCHANGED <<trace, m_Mutex, threads>>
    /\ UNCHANGED counters

\* what the caller of AllocateInternal does with the memory it got: the
\* in-place header (Allocate), the constructor calls (New, NewArray)
ThreadConstruct(t) ==
    /\ ~halted
    /\ threads[t] # <<>>
    /\ Top(t).pc = "construct"
    /\ \E f \in {Top(t)} :
       \E ws \in {IF f.req.kind = "Allocate"
                 THEN InplaceHeaderWrites(policy, f.ptr, f.startOffset, f.endOffset)
                 ELSE ConstructWrites(f.ptr, f.req.count * f.req.size)} :
           \/ /\ AllInMemory(ws)
              /\ mem' = ApplyWrites(mem, ws)
              /\ Pop(t)
              /\ UNCHANGED <<variant, policy, m_CurrentOffset, usedSize, live,
                             lastOp, halted, discipline>>
           \/ /\ ~AllInArena(ws)
              /\ Halt([lastOp EXCEPT !.outcome = "UB"])
              /\ UNCHANGED <<mem, threads>>
    /\ UNCHANGED <<trace, counters, m_Mutex>>

\* Delete(StackPtr<Object>) / DeleteArray(StackArrayPtr<Object>) up to the
\* return of DeallocateInternal, which holds the guard from its first line
ThreadDelete(t) ==
    /\ ~halted
    /\ InClientCode(t)
    /\ counters.ops < MaxOps
    /\ counters' = [counters EXCEPT !.ops = @ + 1]
    /\ InternalGuard(policy, m_Mutex)
    /\ m_Mutex' = InternalReturn(policy, LockGuardAcquire(policy, m_Mutex, t), t)
    /\ \E i \in 1 .. Len(live) :
          /\ live[i].kind \in {"New", "NewArray"}
          /\ ~UnderConstruction(i)
          /\ LET a == live[i]
                 op == IF a.kind = "New" THEN "Delete" ELSE "DeleteArray"
                 r == IF a.kind = "New"
                      THEN DeallocateHandle(variant, policy, m_CurrentOffset, mem, a.ptr,
                                            StackHeader(a.startOffset, a.endOffset))
                      ELSE DeallocateArrayHandle(variant, policy, m_CurrentOffset, mem,
                                                 a.ptr, a.startOffset, a.count, a.size)
             IN  IF r.outcome # "ok"
                 THEN /\ Halt(DeallocOp(op, r, i, a.ptr))
                      /\ UNCHANGED <<trace, threads>>
                 ELSE /\ SetCurrentOffset(r.offset)
                      /\ live' = SelectSeq(SubSeq(live, 1, i - 1),
                                           LAMBDA b : b.post <= r.offset)
                      /\ lastOp' = [DeallocOp(op, r, i, a.ptr) EXCEPT
                                       !.events = <<Deallocated>>]
                      /\ discipline' = IF i = Len(live)
                                          /\ discipline \in {"allocating", "unwinding"}
                                       THEN "unwinding" ELSE "other"
                      /\ trace' = [trace EXCEPT !.valid = FALSE, !.calls = <<>>]
                      /\ Push(t, Frame("destruct",
                                       Request(a.kind, a.size, a.count, a.align),
                                       a.startOffset, a.endOffset, a.ptr))
                      /\ UNCHANGED <<variant, policy, mem, halted>>

\* ptr->~Object() / Internal::DestructArray, after Deallocate has returned
ThreadDestruct(t) ==
    /\ ~halted
    /\ threads[t] # <<>>
    /\ Top(t).pc = "destruct"
    /\ Pop(t)
    /\ lastOp' = IF lastOp.ptr = Top(t).ptr /\ lastOp.op \in {"Delete", "DeleteArray"}
                 THEN [lastOp EXCEPT !.events = DeleteEvents(variant, lastOp.op, "ok",
                                                             Top(t).req.count)]
                 ELSE lastOp
    /\ UNCHANGED <<variant, policy, m_CurrentOffset, usedSize, mem, live, halted,
                   discipline, trace, counters, m_Mutex>>

\* the allocator the threads share is compiled with ThreadSafe; its checks
\* are the default ones or none
ThreadSafePolicies ==
    {[DefaultPolicy EXCEPT !.ThreadSafe = TRUE],
     [p \in DOMAIN DefaultPolicy |-> p = "ThreadSafe"]}

InitThreadSafe == InitState("Policy", ThreadSafePolicies)

NextThreadSafe ==
    \E t \in Threads :
        \/ ThreadAllocate(t)
        \/ ThreadNew(t)
        \/ ThreadNewArray(t)
        \/ ThreadAllocateInternal(t)
        \/ ThreadConstruct(t)
        \/ ThreadDelete(t)
        \/ ThreadDestruct(t)

SpecThreadSafe == InitThreadSafe /\ [][NextThreadSafe]_vars

\* ------------------------------------------------------------ the claims

\* C1: after allocations (any mix of the four entry points) followed by
\* their deallocations in exact reverse order, no deallocation of the most
\* recent allocation has failed a check, and once every allocation is
\* released GetUsedSize() is 0.
C1_LifoUnwindReturnsToZero ==
    /\ (discipline \in {"allocating", "unwinding"}
        /\ lastOp.op \in DeallocOps /\ lastOp.top)
       => lastOp.outcome = "ok"
    /\ (discipline = "unwinding" /\ live = <<>> /\ ~halted) => usedSize = 0

\* C2: with SizeCheck enabled, 0 <= currentOffset <= totalSize in every
\* reachable state, whatever the other flags are.
C2_OffsetWithinArena ==
    policy.SizeCheck => (0 <= m_CurrentOffset /\ m_CurrentOffset <= TotalSize)

\* C3: with StackCheck enabled, deallocating a live allocation (one that lies
\* inside the arena) that is not the most recent one fails with
\* OutOfOrderDeallocation, whatever the sizes of the allocations.
C3_OutOfOrderRejected ==
    (policy.StackCheck
     /\ lastOp.op \in DeallocOps /\ lastOp.target # 0 /\ ~lastOp.top
     /\ lastOp.ptr >= StartAddress /\ lastOp.ptr < StartAddress + TotalSize)
    => lastOp.outcome = "OutOfOrderDeallocation"

\* C4: with SizeCheck enabled, an allocation for which
\* currentOffset + padding + size > totalSize fails with OutOfMemory, writes
\* no guard or header byte and leaves currentOffset and the used size as
\* they were.
C4_OutOfMemoryLeavesState ==
    [][(policy.SizeCheck /\ lastOp'.op \in AllocOps /\ lastOp'.need > TotalSize)
       => (/\ lastOp'.outcome = "OutOfMemory"
           /\ mem' = mem
           /\ m_CurrentOffset' = m_CurrentOffset
           /\ usedSize' = usedSize)]_vars

C4_Witness ==
    /\ policy.SizeCheck
    /\ lastOp.op = "Allocate"
    /\ lastOp.outcome = "OutOfMemory"
    /\ lastOp.need > TotalSize
    /\ lastOp.pre + RequestedBytes <= TotalSize
    /\ m_CurrentOffset = lastOp.pre
    /\ m_CurrentOffset > 0

\* C5: with SizeCheck enabled (so that no allocation is let through past the
\* capacity), every successful allocation returns an address P with
\* P mod alignment = 0 and start <= P < start + total.
C5_AllocatedAddressInsideArena ==
    (policy.SizeCheck /\ lastOp.op \in AllocOps /\ lastOp.outcome = "ok")
    => (/\ lastOp.ptr % lastOp.req.align = 0
        /\ StartAddress <= lastOp.ptr
        /\ lastOp.ptr < StartAddress + TotalSize)

\* C6: with BoundsCheck enabled, deallocating the most recent allocation
\* after its back guard or its front guard was overwritten fails with
\* CorruptionDetected.
C6_CorruptionDetected ==
    (policy.BoundsCheck
     /\ lastOp.op \in DeallocOps /\ lastOp.top /\ lastOp.corrupted # "none")
    => lastOp.outcome = "CorruptionDetected"

\* C7: with OwnershipCheck enabled, deallocating a non-null pointer outside
\* [start, start + total) fails with NotOwnedPointer.
C7_NotOwnedRejected ==
    (policy.OwnershipCheck
     /\ lastOp.op \in DeallocOps /\ lastOp.ptr # NullPtr
     /\ (lastOp.ptr < StartAddress \/ lastOp.ptr >= StartAddress + TotalSize))
    => lastOp.outcome = "NotOwnedPointer"

\* C8: with NullCheck enabled, deallocating a null pointer (raw or inside a
\* handle) fails with NullPointerDeallocation before any header or guard
\* memory is read, in every allocator state.
C8_NullRejectedBeforeRead ==
    (policy.NullCheck /\ lastOp.op \in DeallocOps /\ lastOp.ptr = NullPtr)
    => (lastOp.outcome = "NullPointerDeallocation" /\ ~lastOp.memRead)

C8_Witness ==
    /\ policy.NullCheck
    /\ policy.OwnershipCheck
    /\ lastOp.op = "Delete"
    /\ lastOp.ptr = NullPtr
    /\ lastOp.outcome = "NullPointerDeallocation"
    /\ Len(live) >= 1

\* the calls a freshly constructed allocator of the same totalSize answers
\* to the requests reqs, up to and including the first OutOfMemory
RECURSIVE FreshReplay(_, _)
FreshReplay(offset, reqs) ==
    IF reqs = <<>> THEN <<>>
    ELSE LET r == AllocCall(variant, policy, offset, Head(reqs))
         IN  IF r.outcome = "ok"
             THEN <<CallRecord(Head(reqs), r)>> \o FreshReplay(r.offset, Tail(reqs))
             ELSE <<CallRecord(Head(reqs), r)>>

RequestsOf(calls) == [i \in 1 .. Len(calls) |-> calls[i].req]

\* C9: Reset sets currentOffset and the used size to 0, and the allocation
\* calls made after it get the same start, payload and end offsets and the
\* same success / OutOfMemory outcomes as on a fresh allocator.
C9_ResetReplaysFresh ==
    /\ lastOp.op = "Reset" => (m_CurrentOffset = 0 /\ usedSize = 0)
    /\ (trace.afterReset /\ trace.valid)
       => trace.calls = FreshReplay(0, RequestsOf(trace.calls))

C9_Witness ==
    /\ trace.afterReset /\ trace.valid
    /\ Len(trace.calls) = 2
    /\ counters.allocs = 3
    /\ trace.calls[2].startOffset > 0
    /\ trace.calls[2].ptr > StartAddress + trace.calls[2].startOffset

C11_DeleteArrayDestructsEach ==
    (lastOp.op = "DeleteArray" /\ lastOp.target # 0
     /\ Deallocated \in {lastOp.events[i] : i \in 1 .. Len(lastOp.events)})
    => LET d == Destructed(lastOp.events)
       IN  /\ lastOp.outcome = "ok"
           /\ Len(d) = lastOp.req.count
           /\ {d[i] : i \in 1 .. Len(d)} = 0 .. (lastOp.req.count - 1)

\* C12: with StackCheck enabled, DeallocateArray / DeleteArray of the most
\* recently made live array (untouched by the client, after LIFO-correct use)
\* passes the LIFO check and restores currentOffset to the array's
\* startOffset, with BoundsCheck on or off, by raw pointer or by handle.
C12_ArrayDeallocPassesLifo ==
    (policy.StackCheck
     /\ lastOp.op \in {"DeallocateArray", "DeleteArray"}
     /\ lastOp.top /\ lastOp.corrupted = "none"
     /\ discipline \in {"allocating", "unwinding"})
    => (/\ lastOp.outcome = "ok"
        /\ m_CurrentOffset = lastOp.allocPre)

\* The two ways a deallocation finds its header, on the same request made in
\* the current state: RawPath allocates with Allocate / AllocateArray (header
\* written before the payload) and deallocates by pointer, HandlePath
\* allocates with New / NewArray and deallocates by handle.  With later, one
\* more object is allocated on top before the deallocation.
LaterRequest == Request("New", 8, 1, 8)

RawPath(type, count, array, later) ==
    LET req == Request(IF array THEN "AllocateArray" ELSE "Allocate",
                       type[1], count, type[2])
        a == AllocCall(variant, policy, m_CurrentOffset, req)
        y == AllocCall(variant, policy, a.offset, LaterRequest)
        off == IF later THEN y.offset ELSE a.offset
        m == IF later THEN ApplyWrites(mem, a.writes \o y.writes)
             ELSE ApplyWrites(mem, a.writes)
        r == IF array
             THEN DeallocateArrayRaw(variant, policy, off, m, a.ptr, type[1])
             ELSE DeallocateRaw(variant, policy, off, m, a.ptr)
    IN  [made |-> /\ a.outcome = "ok" /\ AllInArena(a.writes)
                  /\ later => (y.outcome = "ok" /\ AllInArena(y.writes)),
         outcome |-> r.outcome, offset |-> r.offset, before |-> off]

HandlePath(type, count, array, later) ==
    LET req == Request(IF array THEN "NewArray" ELSE "New",
                       type[1], count, type[2])
        a == AllocCall(variant, policy, m_CurrentOffset, req)
        y == AllocCall(variant, policy, a.offset, LaterRequest)
        off == IF later THEN y.offset ELSE a.offset
        m == IF later THEN ApplyWrites(mem, a.writes \o y.writes)
             ELSE ApplyWrites(mem, a.writes)
        r == IF array
             THEN DeallocateArrayHandle(variant, policy, off, m, a.ptr,
                                        a.startOffset, count, type[1])
             ELSE DeallocateHandle(variant, policy, off, m, a.ptr,
                                   StackHeader(a.startOffset, a.endOffset))
    IN  [made |-> /\ a.outcome = "ok" /\ AllInArena(a.writes)
                  /\ later => (y.outcome = "ok" /\ AllInArena(y.writes)),
         outcome |-> r.outcome, offset |-> r.offset, before |-> off]

PathsAgree(type, count, array, later) ==
    LET raw == RawPath(type, count, array, later)
        handle == HandlePath(type, count, array, later)
    IN  (raw.made /\ handle.made)
        => (/\ raw.outcome = handle.outcome
            /\ raw.outcome = "ok" => raw.offset = handle.offset)

\* C13: in every reachable state and under every policy, an allocation whose
\* header is re-read from memory (raw pointer) and the same allocation whose
\* header comes from a handle are both accepted or both rejected with the
\* same error by the deallocation, and when accepted both roll currentOffset
\* back to the same value; checked for the most recent allocation and for one
\* with a later allocation on top, single objects and arrays, in every state
\* that allocating calls lead to (SpecAllocating).
C13_HandleAndRawAgree ==
    ~halted =>
       /\ \A type \in ObjectTypes, later \in BOOLEAN :
              PathsAgree(type, 1, FALSE, later)
       /\ \A type \in ArrayTypes, count \in Counts, later \in BOOLEAN :
              PathsAgree(type, count, TRUE, later)

\* a state holding two allocations where, with StackCheck enabled, both
\* paths release a most recent allocation and both refuse one that is not
\* the most recent
C13_Witness ==
    /\ policy = [DefaultPolicy EXCEPT !.BoundsCheck = FALSE]
    /\ Len(live) = 2 /\ m_CurrentOffset > 0 /\ ~halted
    /\ RawPath(<<8, 8>>, 1, FALSE, FALSE).made
    /\ RawPath(<<8, 8>>, 1, FALSE, FALSE).outcome = "ok"
    /\ HandlePath(<<8, 8>>, 1, FALSE, FALSE).made
    /\ HandlePath(<<8, 8>>, 1, FALSE, FALSE).outcome = "ok"
    /\ HandlePath(<<8, 8>>, 1, FALSE, FALSE).offset = m_CurrentOffset
    /\ RawPath(<<8, 8>>, 1, FALSE, TRUE).made
    /\ RawPath(<<8, 8>>, 1, FALSE, TRUE).outcome = "OutOfOrderDeallocation"
    /\ HandlePath(<<8, 8>>, 1, FALSE, TRUE).made
    /\ HandlePath(<<8, 8>>, 1, FALSE, TRUE).outcome = "OutOfOrderDeallocation"

\* C14: in a Delete / DeleteArray of a live allocation no destructor is
\* invoked before the Deallocate step has completed, and none at all when
\* the call fails a check.
C14_DeallocateBeforeDestructor ==
    (lastOp.op \in {"Delete", "DeleteArray"} /\ lastOp.target # 0)
    => /\ \A i \in 1 .. Len(lastOp.events) :
             lastOp.events[i].ev = "destruct"
             => \E j \in 1 .. (i - 1) : lastOp.events[j] = Deallocated
       /\ lastOp.outcome \notin {"ok", "UB"} => Destructed(lastOp.events) = <<>>

\* C15: with ThreadSafe set, however the allocating calls of the threads
\* interleave, the regions [startOffset, endOffset) they return are pairwise
\* disjoint, and every call gets the offsets, and the allocator ends at the
\* current offset, of the calls made one after the other in the order in
\* which they took the lock.
C15_ConcurrentAllocationsLinearized ==
    (policy.ThreadSafe /\ trace.valid)
    => /\ \A i, j \in 1 .. Len(live) :
             i < j => \/ live[i].endOffset <= live[j].startOffset
                      \/ live[j].endOffset <= live[i].startOffset
       /\ trace.calls = FreshReplay(0, RequestsOf(trace.calls))
       /\ Len(trace.calls) = counters.allocs
          => m_CurrentOffset = IF trace.calls = <<>> THEN 0
                               ELSE trace.calls[Len(trace.calls)].endOffset

\* two threads have a call in flight at once, after a third call
C15_Witness ==
    /\ policy.ThreadSafe /\ trace.valid /\ ~halted
    /\ Len(live) = 3
    /\ \A t \in Threads : threads[t] # <<>> /\ Top(t).pc = "construct"
    /\ \E i \in 1 .. Len(live) : live[i].startOffset < live[i].endOffset
    /\ m_CurrentOffset = live[3].endOffset

\* C16: with ThreadSafe set, no thread holds the allocator's lock while it
\* executes a constructor or a destructor, and the lock is held only by a
\* thread that is inside AllocateInternal: a constructor that calls the
\* allocator again finds nothing of its own to wait for.
C16_LockNotHeldInUserCode ==
    policy.ThreadSafe
    => /\ \A t \in Threads :
             (threads[t] # <<>> /\ Top(t).pc \in {"construct", "destruct"})
             => m_Mutex # t
       /\ m_Mutex # 0
          => \E t \in Threads : /\ threads[t] # <<>>
                                /\ Top(t).pc = "AllocateInternal"
                                /\ m_Mutex = t

\* a constructor has allocated from the allocator that is constructing its
\* object, while another thread runs a destructor
C16_Witness ==
    /\ policy.ThreadSafe /\ ~halted
    /\ \E t \in Threads :
          /\ Len(threads[t]) = 2
          /\ threads[t][1].pc = "construct" /\ threads[t][1].req.kind = "New"
          /\ threads[t][2].pc = "construct"
          /\ threads[t][2].startOffset >= threads[t][1].endOffset
          /\ m_Mutex = 0
          /\ \E u \in Threads \ {t} : threads[u] # <<>> /\ Top(u).pc = "destruct"

\* the allocator compiled with no policy flag at all
NoChecks == [p \in DOMAIN DefaultPolicy |-> FALSE]

\* the payload offset and the current offset after each call that an
\* allocator with the policy pol answers to the requests reqs, starting empty
RECURSIVE LayoutFrom(_, _, _)
LayoutFrom(pol, offset, reqs) ==
    IF reqs = <<>> THEN <<>>
    ELSE LET r == AllocCall(variant, pol, offset, Head(reqs))
         IN  IF r.outcome = "ok"
             THEN <<[payload |-> r.ptr - StartAddress, currentOffset |-> r.offset]>>
                  \o LayoutFrom(pol, r.offset, Tail(reqs))
             ELSE <<>>

\* the same of the calls the allocator has answered
LayoutOf(calls) ==
    [i \in 1 .. Len(calls) |-> [payload |-> calls[i].ptr - StartAddress,
                                currentOffset |-> calls[i].endOffset]]
SucceededCalls(calls) == SelectSeq(calls, LAMBDA c : c.outcome = "ok")

\* C17 (as stated): the allocator with the default policy lays its
\* allocations out as the allocator with no flag does.
C17_AllOffSameLayout ==
    (policy = DefaultPolicy /\ trace.valid)
    => LayoutOf(SucceededCalls(trace.calls))
       = SubSeq(LayoutFrom(NoChecks, 0, RequestsOf(trace.calls)),
                1, Len(SucceededCalls(trace.calls)))

\* C17 (amended): the flags that store nothing in the arena (SizeCheck,
\* NullCheck, OwnershipCheck) leave the layout of the allocator with no flag:
\* the calls that succeed get the same payload offsets and leave the same
\* current offset.
C17_MetadataFreeChecksSameLayout ==
    (~policy.BoundsCheck /\ ~policy.StackCheck /\ trace.valid)
    => /\ LayoutOf(SucceededCalls(trace.calls))
          = SubSeq(LayoutFrom(NoChecks, 0, RequestsOf(trace.calls)),
                   1, Len(SucceededCalls(trace.calls)))
       /\ (~halted /\ trace.calls # <<>>)
          => m_CurrentOffset = trace.calls[Len(trace.calls)].endOffset

\* three calls answered under the three checks that store nothing, the
\* second one not where the first one ended
C17_Witness ==
    /\ policy = [NoChecks EXCEPT !.SizeCheck = TRUE, !.NullCheck = TRUE,
                                 !.OwnershipCheck = TRUE]
    /\ trace.valid /\ ~halted
    /\ Len(trace.calls) = 3
    /\ trace.calls[2].ptr > StartAddress + trace.calls[1].endOffset
    /\ \E i \in 1 .. 3 : trace.calls[i].req.kind = "Allocate"
    /\ m_CurrentOffset = trace.calls[3].endOffset

\* C18: with StackCheck off, a deallocation of a live allocation A whose
\* payload lies in the arena, the most recent one or not, completes and
\* leaves currentOffset at A's startOffset;
\* the allocations made after A are released with it, and the allocation
\* that follows starts at A's startOffset.
C18_NonLifoDeallocRollsBackToStart ==
    (/\ ~policy.StackCheck
     /\ lastOp.op \in DeallocOps
     /\ lastOp.target # 0
     /\ lastOp.corrupted = "none"
     /\ lastOp.ptr + lastOp.req.count * lastOp.req.size <= StartAddress + TotalSize)
    => /\ lastOp.outcome \in {"ok", "UB"}
       /\ m_CurrentOffset = lastOp.allocPre
       /\ \A i \in 1 .. Len(live) : live[i].post <= lastOp.allocPre
       /\ \A req \in {Request("New", 8, 1, 8), Request("Allocate", 12, 1, 4)} :
             AllocCall(variant, policy, m_CurrentOffset, req).startOffset
             = lastOp.allocPre

\* the oldest of three live allocations has just been deallocated and has
\* taken the two later ones with it
C18_Witness ==
    /\ ~policy.StackCheck /\ policy.BoundsCheck /\ ~halted
    /\ lastOp.op \in DeallocOps
    /\ lastOp.target = 1 /\ ~lastOp.top
    /\ lastOp.outcome = "ok"
    /\ lastOp.pre > lastOp.allocPre
    /\ counters.allocs = 3 /\ counters.ops = 4
    /\ live = <<>>
    /\ m_CurrentOffset = 0

\* C19: after a deallocation of the most recent allocation that completed,
\* the same request passes the size check again and gets the payload address,
\* the start offset and the end offset of the allocation just freed.
C19_FreedMemoryReusedAtOnce ==
    (/\ lastOp.op \in DeallocOps
     /\ lastOp.target # 0 /\ lastOp.top
     /\ lastOp.outcome = "ok")
    => LET r == AllocCall(variant, policy, m_CurrentOffset, lastOp.req)
       IN  /\ r.outcome = "ok"
           /\ r.ptr = lastOp.ptr
           /\ r.startOffset = lastOp.allocPre
           /\ r.endOffset = lastOp.allocEnd

\* the second of two allocations, padded and guarded, has just been deleted
C19_Witness ==
    /\ lastOp.op \in DeallocOps /\ lastOp.target = 2 /\ lastOp.top
    /\ lastOp.outcome = "ok" /\ ~halted
    /\ policy = DefaultPolicy
    /\ Len(live) = 1
    /\ m_CurrentOffset = lastOp.allocPre /\ m_CurrentOffset > 0
    /\ lastOp.ptr > StartAddress + m_CurrentOffset + SizeofBoundGuardFront
    /\ lastOp.allocEnd = lastOp.pre

RECURSIVE Descending(_)
Descending(count) ==
    IF count = 0 THEN <<>> ELSE <<count - 1>> \o Descending(count - 1)

\* C21: a DeleteArray of a live array whose deallocation went through
\* invokes the destructors only after the rollback has completed, on the
\* elements count-1, count-2, .., 0 in this order.
C21_DeleteArrayDescendingAfterRollback ==
    (lastOp.op = "DeleteArray" /\ lastOp.target # 0
     /\ lastOp.outcome \in {"ok", "UB"} /\ lastOp.events # <<>>)
    => /\ Head(lastOp.events) = Deallocated
       /\ Destructed(lastOp.events) = Descending(lastOp.req.count)

\* C22: under LIFO-correct use every live allocation has
\* startOffset < endOffset <= currentOffset, and the most recently made live
\* allocation is the only one whose endOffset is the current offset.
C22_LiveOffsetsOrdered ==
    (discipline \in {"allocating", "unwinding"} /\ ~halted)
    => /\ \A i \in 1 .. Len(live) :
             /\ live[i].startOffset < live[i].endOffset
             /\ live[i].endOffset <= m_CurrentOffset
       /\ live # <<>>
          => {i \in 1 .. Len(live) : live[i].endOffset = m_CurrentOffset}
             = {Len(live)}

\* the guard and header writes of an allocating call made at currentOffset:
\* those of AllocateInternal, and the in-place header of Allocate /
\* AllocateArray (New / NewArray store no header; their constructors write
\* the payload)
MetadataWrites(var, pol, currentOffset, req) ==
    IF req.kind \in {"New", "NewArray"}
    THEN AllocateInternalOf(var, pol, currentOffset, 0, req.count * req.size,
                            req.align).writes
    ELSE AllocCall(var, pol, currentOffset, req).writes

\* the addresses the writes ws store to
WrittenAddresses(ws) ==
    UNION {ws[i].addr .. (ws[i].addr + ws[i].n - 1) : i \in 1 .. Len(ws)}

\* C23: with SizeCheck enabled, the front guard, the in-place header and the
\* back guard an allocation writes after passing the size check lie inside
\* the arena [start, start + total), and the front guard and header occupy
\* exactly the bytes that end at the payload address.
C23_MetadataInsideArena ==
    (policy.SizeCheck /\ lastOp.op \in AllocOps /\ lastOp.outcome \in {"ok", "UB"})
    => LET ws == MetadataWrites(variant, policy, lastOp.pre, lastOp.req)
           before == {a \in WrittenAddresses(ws) : a < lastOp.ptr}
           headerBytes == GetTotalHeaderSize(policy, HeaderSizeOf(policy, lastOp.op))
       IN  /\ AllInArena(ws)
           /\ before = (lastOp.ptr - headerBytes) .. (lastOp.ptr - 1)

\* the alignments a call may pass (Alignment holds a power of two) and the
\* values of totalHeaderSize the allocator is instantiated with
RECURSIVE IsPowerOfTwo(_)
IsPowerOfTwo(n) == n = 1 \/ (n > 1 /\ n % 2 = 0 /\ IsPowerOfTwo(n \div 2))
Alignments == {n \in 1 .. MaxAlignment : IsPowerOfTwo(n)}
TotalHeaderSizes ==
    {GetTotalHeaderSize(pol, HeaderSizeOf(pol, kind)) : pol \in Policies, kind \in AllocOps}

\* C24: whatever the current offset, the alignment and the size of the
\* metadata, the payload address AllocateInternal chooses leaves the whole
\* metadata region [payload - totalHeaderSize, payload) at or above the
\* current offset of before the call; no guard or header byte an allocating
\* call writes lies below that offset.
C24_MetadataAboveOffset ==
    /\ \A alignment \in Alignments, totalHeaderSize \in TotalHeaderSizes :
          LET baseAddress == StartAddress + m_CurrentOffset
              payload == AlignedAddress(baseAddress, alignment, totalHeaderSize)
          IN  /\ payload - totalHeaderSize >= baseAddress
              /\ payload % alignment = 0
    /\ (lastOp.op \in AllocOps /\ lastOp.outcome \in {"ok", "UB"})
       => \A a \in WrittenAddresses(MetadataWrites(variant, policy, lastOp.pre,
                                                    lastOp.req)) :
             a >= StartAddress + lastOp.pre

\* an allocation on top of another whose metadata begins after the offset
\* it was made at: alignment has added bytes to the padding
C24_Witness ==
    /\ lastOp.op = "Allocate" /\ lastOp.outcome = "ok" /\ ~halted
    /\ policy.BoundsCheck /\ policy.StackCheck
    /\ lastOp.pre > 0 /\ lastOp.pre % lastOp.req.align # 0
    /\ Len(live) = 2
    /\ FrontGuardAddressOf(policy, live[2]) > StartAddress + lastOp.pre
    /\ mem[StartAddress + lastOp.pre - 1] # Uninit

\* thread t has returned from AllocateInternal inside Allocate and has the
\* in-place header still to write
InAllocateHeader(t) ==
    /\ threads[t] # <<>>
    /\ Top(t).pc = "construct"
    /\ Top(t).req.kind \in {"Allocate", "AllocateArray"}

\* thread t is inside AllocateInternal: it has read the current offset and
\* has the guards to write and the offset to advance
InAllocateInternal(t) ==
    /\ threads[t] # <<>>
    /\ Top(t).pc = "AllocateInternal"

\* C25: with ThreadSafe set, a thread that is reading the current offset or
\* writing guard bytes or the in-place header of an allocation holds the
\* allocator's lock.
C25_MetadataAccessUnderLock ==
    policy.ThreadSafe
    => \A t \in Threads :
          (InAllocateInternal(t) \/ InAllocateHeader(t)) => m_Mutex = t

\* ------------------------------------- threads that wait for the lock
\* A call is issued first and takes the guard when the mutex is free: the
\* frame of a call that has reached line 271 of AllocateInternal has pc
\* "LockGuard", the frame of one that has reached line 323 of
\* DeallocateInternal has pc "DeallocateInternal".
ThreadCall(t, kind, size, count, align) ==
    /\ ~halted
    /\ InClientCode(t) \/ (InConstructor(t) /\ Len(threads[t]) < MaxDepth)
    /\ counters.ops < MaxOps
    /\ counters.allocs < MaxAllocs
    /\ counters' = [counters EXCEPT !.ops = @ + 1, !.allocs = @ + 1]
    /\ Push(t, Frame("LockGuard", Request(kind, size, count, align), 0, 0, NullPtr))
    /\ UNCHANGED <<variant, policy, m_CurrentOffset, usedSize, mem, live, lastOp,
                   halted, discipline, trace, m_Mutex>>

ThreadCallAllocate(t) ==
    \E type \in ObjectTypes : ThreadCall(t, "Allocate", type[1], 1, type[2])

ThreadCallNew(t) ==
    \E type \in ObjectTypes : ThreadCall(t, "New", type[1], 1, type[2])

\* line 271: the guard's constructor returns, line 273: the offset is read
ThreadLockGuard(t) ==
    /\ ~halted
    /\ threads[t] # <<>>
    /\ Top(t).pc = "LockGuard"
    /\ InternalGuard(policy, m_Mutex)
    /\ m_Mutex' = LockGuardAcquire(policy, m_Mutex, t)
    /\ SetTop(t, Frame("AllocateInternal", Top(t).req, m_CurrentOffset,
                       m_CurrentOffset, NullPtr))
    /\ UNCHANGED <<variant, policy, m_CurrentOffset, usedSize, mem, live, lastOp,
                   halted, discipline, trace, counters>>

\* some thread is already deleting the object at live[i]
BeingDeleted(i) ==
    \E t \in Threads : \E k \in 1 .. Len(threads[t]) :
        /\ threads[t][k].pc \in {"DeallocateInternal", "destruct"}
        /\ threads[t][k].startOffset = live[i].startOffset
        /\ threads[t][k].ptr = live[i].ptr

\* Delete(StackPtr<Object>) is called with the handle of a live object
ThreadCallDelete(t) ==
    /\ ~halted
    /\ InClientCode(t)
    /\ counters.ops < MaxOps
    /\ counters' = [counters EXCEPT !.ops = @ + 1]
    /\ \E i \in 1 .. Len(live) :
          /\ live[i].kind = "New"
          /\ ~UnderConstruction(i)
          /\ ~BeingDeleted(i)
          /\ Push(t, Frame("DeallocateInternal",
                           Request(live[i].kind, live[i].size, live[i].count,
                                   live[i].align),
                           live[i].startOffset, live[i].endOffset, live[i].ptr))
    /\ UNCHANGED <<variant, policy, m_CurrentOffset, usedSize, mem, live, lastOp,
                   halted, discipline, trace, m_Mutex>>

\* the index in live of the allocation a handle was made for, 0 when a
\* rollback has released it meanwhile
LiveIndexOf(frame) ==
    LET found == {i \in 1 .. Len(live) : /\ live[i].ptr = frame.ptr
                                          /\ live[i].startOffset = frame.startOffset}
    IN  IF found = {} THEN 0 ELSE CHOOSE i \in found : TRUE

\* DeallocateInternal, whole: the guard, the enabled checks, the rollback and
\* the return, which destroys the guard
ThreadDeallocateInternal(t) ==
    /\ ~halted
    /\ threads[t] # <<>>
    /\ Top(t).pc = "DeallocateInternal"
    /\ InternalGuard(policy, m_Mutex)
    /\ m_Mutex' = InternalReturn(policy, LockGuardAcquire(policy, m_Mutex, t), t)
    /\ LET f == Top(t)
           i == LiveIndexOf(f)
           r == DeallocateHandle(variant, policy, m_CurrentOffset, mem, f.ptr,
                                 StackHeader(f.startOffset, f.endOffset))
       IN  IF r.outcome # "ok"
           THEN /\ Halt(DeallocOp("Delete", r, i, f.ptr))
                /\ UNCHANGED <<trace, threads>>
           ELSE /\ SetCurrentOffset(r.offset)
                /\ live' = SelectSeq(IF i = 0 THEN live ELSE SubSeq(live, 1, i - 1),
                                     LAMBDA b : b.post <= r.offset)
                /\ lastOp' = [DeallocOp("Delete", r, i, f.ptr) EXCEPT
                                 !.events = <<Deallocated>>]
                /\ discipline' = IF i # 0 /\ i = Len(live)
                                    /\ discipline \in {"allocating", "unwinding"}
                                 THEN "unwinding" ELSE "other"
                /\ trace' = [trace EXCEPT !.valid = FALSE, !.calls = <<>>]
                /\ SetTop(t, Frame("destruct", f.req, f.startOffset, f.endOffset, f.ptr))
                /\ UNCHANGED <<variant, policy, mem, halted>>
    /\ UNCHANGED counters

NextWaiting ==
    \E t \in Threads :
        \/ ThreadCallAllocate(t)
        \/ ThreadCallNew(t)
        \/ ThreadLockGuard(t)
        \/ ThreadAllocateInternal(t)
        \/ ThreadConstruct(t)
        \/ ThreadCallDelete(t)
        \/ ThreadDeallocateInternal(t)
        \/ ThreadDestruct(t)

\* fair scheduling: a thread that can run does run, and a thread that waits
\* for the mutex gets it if the mutex is free again and again
FairScheduling ==
    \A t \in Threads :
        /\ WF_vars(ThreadAllocateInternal(t))
        /\ WF_vars(ThreadConstruct(t))
        /\ WF_vars(ThreadDestruct(t))
        /\ SF_vars(ThreadLockGuard(t))
        /\ SF_vars(ThreadDeallocateInternal(t))

SpecThreadSafeFair == InitThreadSafe /\ [][NextWaiting]_vars /\ FairScheduling

\* C26: with ThreadSafe set and fair scheduling, every call a thread has
\* issued (it may be waiting for the lock, be inside the critical section or
\* be running a constructor or destructor) eventually returns, unless the
\* process aborts on a failed check; and the lock, once taken, is free again.
C26_EveryCallReturns ==
    /\ \A t \in Threads : (threads[t] # <<>>) ~> (threads[t] = <<>> \/ halted)
    /\ (m_Mutex # 0) ~> (m_Mutex = 0 \/ halted)

\* a thread waits at the guard of DeallocateInternal while another thread,
\* whose constructor has called the allocator again, is inside AllocateInternal
C26_Witness ==
    /\ policy.ThreadSafe /\ ~halted
    /\ \E t, u \in Threads :
          /\ t # u
          /\ threads[t] # <<>> /\ Top(t).pc = "DeallocateInternal"
          /\ Len(threads[u]) = 2 /\ Top(u).pc = "AllocateInternal"
          /\ m_Mutex = u

\* C27: GetUsedSize() equals currentOffset after every call, completed or
\* aborted: the offset changes only in SetCurrentOffset, which reports the
\* same value as the used size.
C27_UsedSizeTracksOffset == usedSize = m_CurrentOffset

\* an allocation, a Reset, an allocation and the deallocation of an older
\* allocation have each moved the offset, the last one to above 0
C27_Witness ==
    /\ ~halted
    /\ counters.resets = 1 /\ counters.allocs = 2 /\ counters.ops = 4
    /\ lastOp.op \in DeallocOps /\ lastOp.target # 0 /\ lastOp.outcome = "ok"
    /\ lastOp.pre > m_CurrentOffset
    /\ m_CurrentOffset > 0
    /\ usedSize = m_CurrentOffset

\* the assertions of GetAddressFromPtr and DeallocateInternal
RejectedByCheck ==
    {"NullPointerDeallocation", "NotOwnedPointer", "OutOfOrderDeallocation",
     "CorruptionDetected"}

\* C28: when NullCheck, OwnershipCheck, StackCheck or BoundsCheck rejects a
\* Deallocate / Delete / DeallocateArray / DeleteArray, the current offset and
\* the used size are, at the point of failure, what they were before the call
C28_RejectedDeallocLeavesOffset ==
    (lastOp.op \in DeallocOps /\ lastOp.outcome \in RejectedByCheck)
    => /\ halted
       /\ m_CurrentOffset = lastOp.pre
       /\ usedSize = lastOp.pre

\* the last check of the call, the guard comparison, rejects the deallocation
\* of the top allocation, whose rollback would have lowered the offset
C28_Witness ==
    /\ halted
    /\ lastOp.op \in DeallocOps /\ lastOp.outcome = "CorruptionDetected"
    /\ lastOp.target = Len(live) /\ lastOp.target # 0
    /\ policy.StackCheck /\ policy.NullCheck /\ policy.OwnershipCheck
    /\ lastOp.allocPre < lastOp.pre
    /\ m_CurrentOffset = lastOp.pre /\ usedSize = lastOp.pre

\* the bytes [P, P + size) an allocation hands to its client
PayloadOf(a) == a.ptr .. (a.ptr + a.count * a.size - 1)

\* the bytes of an allocation's front guard and in-place header, which end
\* where its payload begins, and of its back guard
MetadataOf(pol, a) ==
    (FrontGuardAddressOf(pol, a) .. (a.ptr - 1))
    \cup (IF pol.BoundsCheck
          THEN BackGuardAddressOf(a) .. (BackGuardAddressOf(a) + SizeofBoundGuardBack - 1)
          ELSE {})

\* C29: under LIFO-correct use with SizeCheck, the payloads of the live
\* allocations are pairwise disjoint, lie inside the arena and are disjoint
\* from the header and guard bytes of every live allocation
C29_PayloadsDisjoint ==
    (policy.SizeCheck /\ discipline \in {"allocating", "unwinding"})
    => \A i \in 1 .. Len(live) :
          /\ PayloadOf(live[i]) \subseteq StartAddress .. (StartAddress + TotalSize - 1)
          /\ \A j \in 1 .. Len(live) :
                /\ i # j => PayloadOf(live[i]) \cap PayloadOf(live[j]) = {}
                /\ PayloadOf(live[i]) \cap MetadataOf(policy, live[j]) = {}

\* three allocations with payload and guards, one of them with an in-place
\* header, are live together
C29_Witness ==
    /\ ~halted
    /\ policy.SizeCheck /\ policy.BoundsCheck
    /\ discipline = "allocating"
    /\ Len(live) = 3
    /\ \A i \in 1 .. 3 : PayloadOf(live[i]) # {}
    /\ \E i \in 1 .. 3 : live[i].kind \in {"Allocate", "AllocateArray"}
    /\ lastOp.op \in AllocOps /\ lastOp.outcome = "ok"

\* C30: with BoundsCheck the back guard of a live allocation lies below the
\* offset recorded after the allocation, and, unless the client wrote over it,
\* it still holds the value it was constructed with while later allocations
\* are made and released
C30_BackGuardBelowOffset ==
    policy.BoundsCheck
    => \A i \in 1 .. Len(live) :
          /\ BackGuardAddressOf(live[i]) + SizeofBoundGuardBack
                <= StartAddress + live[i].post
          /\ live[i].corrupted # "back"
                => ReadField(mem, BackGuardAddressOf(live[i]), SizeofOffset)
                     = live[i].startOffset

\* ------------------------------------------- a deallocation made twice
\* The client passes the pointer or handle of the allocation it has just
\* deallocated to the same overload once more, with no call in between.  The
\* handle still carries the offsets it was made with; the in-place header is
\* read from the memory the first call left behind.
DeallocateAgain ==
    /\ ~halted
    /\ Sequential
    /\ counters.ops < MaxOps
    /\ lastOp.op \in {"Deallocate", "Delete", "DeallocateArray", "DeleteArray"}
    /\ lastOp.outcome = "ok"
    /\ lastOp.target # 0
    /\ counters' = [counters EXCEPT !.ops = @ + 1]
    /\ LET r == CASE lastOp.op = "Deallocate" ->
                       DeallocateRaw(variant, policy, m_CurrentOffset, mem, lastOp.ptr)
                  [] lastOp.op = "Delete" ->
                       DeallocateHandle(variant, policy, m_CurrentOffset, mem, lastOp.ptr,
                                        StackHeader(lastOp.allocPre, lastOp.allocEnd))
                  [] lastOp.op = "DeallocateArray" ->
                       DeallocateArrayRaw(variant, policy, m_CurrentOffset, mem,
                                          lastOp.ptr, lastOp.req.size)
                  [] OTHER ->
                       DeallocateArrayHandle(variant, policy, m_CurrentOffset, mem,
                                             lastOp.ptr, lastOp.allocPre,
                                             lastOp.req.count, lastOp.req.size)
           again == [lastOp EXCEPT !.op = "DeallocateAgain", !.outcome = r.outcome,
                                   !.top = FALSE, !.pre = m_CurrentOffset,
                                   !.memRead = r.memRead,
                                   !.events = DeleteEvents(variant, lastOp.op, r.outcome,
                                                           lastOp.req.count)]
       IN  IF r.outcome # "ok"
           THEN HaltAt(again, r.offset)
           ELSE /\ SetCurrentOffset(r.offset)
                /\ live' = SelectSeq(live, LAMBDA a : a.post <= r.offset)
                /\ lastOp' = again
                /\ discipline' = "other"
                /\ UNCHANGED <<variant, policy, mem, halted>>
    /\ trace' = [trace EXCEPT !.valid = FALSE, !.calls = <<>>]

NextAgain ==
    \/ Allocate
    \/ New
    \/ AllocateArray
    \/ NewArray
    \/ Deallocate
    \/ Delete
    \/ DeallocateArray
    \/ DeleteArray
    \/ DeallocateAgain

SpecAgain == Init /\ [][NextAgain]_vars

\* C31: with StackCheck, the second of two successive deallocations of the
\* same allocation fails with OutOfOrderDeallocation and the current offset is
\* what it was before the second call
C31_SecondDeallocRejected ==
    (policy.StackCheck /\ lastOp.op = "DeallocateAgain")
    => /\ lastOp.outcome = "OutOfOrderDeallocation"
       /\ halted
       /\ m_CurrentOffset = lastOp.pre

\* ------------------------------------------- Reset called by a thread
\* StackAllocator::Reset is SetCurrentOffset(0) and nothing else: it constructs
\* no guard, so a thread runs it whoever holds the mutex
ThreadReset(t) ==
    /\ ~halted
    /\ InClientCode(t)
    /\ counters.ops < MaxOps
    /\ counters.resets < MaxResets
    /\ counters' = [counters EXCEPT !.ops = @ + 1, !.resets = @ + 1]
    /\ SetCurrentOffset(0)
    /\ live' = <<>>
    /\ lastOp' = [NoOp EXCEPT !.op = "Reset", !.pre = m_CurrentOffset]
    /\ discipline' = "other"
    /\ trace' = [afterReset |-> TRUE, valid |-> TRUE, calls |-> <<>>]
    /\ UNCHANGED <<variant, policy, mem, halted, m_Mutex, threads>>

NextThreadSafeReset ==
    \E t \in Threads :
        \/ ThreadAllocate(t)
        \/ ThreadNew(t)
        \/ ThreadNewArray(t)
        \/ ThreadAllocateInternal(t)
        \/ ThreadConstruct(t)
        \/ ThreadDelete(t)
        \/ ThreadDestruct(t)
        \/ ThreadReset(t)

SpecThreadSafeReset == InitThreadSafe /\ [][NextThreadSafeReset]_vars

\* C32: with ThreadSafe, a Reset that runs while other threads allocate is
\* serialized with their calls: the allocations that complete after it are
\* laid out as in an allocator that was just reset, and the current offset is
\* the end of the last of them (0 if there is none)
C32_ResetSerialized ==
    (policy.ThreadSafe /\ trace.afterReset /\ trace.valid)
    => /\ trace.calls = FreshReplay(0, RequestsOf(trace.calls))
       /\ m_CurrentOffset = IF trace.calls = <<>> THEN 0
                            ELSE trace.calls[Len(trace.calls)].endOffset

\* the bytes of the object or array a deleting call in progress was given
BytesOf(frame) == frame.ptr .. (frame.ptr + frame.req.count * frame.req.size - 1)

\* the object at live[i] has been allocated and its constructor has returned
Constructed(i) ==
    live[i].kind \in {"New", "NewArray"} /\ ~UnderConstruction(i)

\* C33: with ThreadSafe, while a Delete / DeleteArray has rolled the offset
\* back and its destructor calls have not finished, no allocation of another
\* thread is placed in, and constructed over, the bytes of the object that is
\* being destructed
C33_DestructedBytesNotReused ==
    policy.ThreadSafe
    => \A t \in Threads : \A k \in 1 .. Len(threads[t]) :
          threads[t][k].pc = "destruct"
          => \A i \in 1 .. Len(live) :
                Constructed(i) => PayloadOf(live[i]) \cap BytesOf(threads[t][k]) = {}

\* ------------------------------------- requests near the range of Size
\* object counts whose product with the element size reaches 2^SizeWidth
WideCounts ==
    {SizeModulus \div type[1] + extra : type \in ArrayTypes, extra \in {0, 1}}

\* sizes that reach 2^SizeWidth once offset and padding are added
WideSizes == {SizeModulus - 16, SizeModulus - 8}

\* Allocate(size, alignment) with a size close to the largest value of Size
AllocateWide ==
    \E size \in WideSizes : AllocStep("Allocate", size, 1, DefaultAlignment)

\* AllocateArray(objectCount, objectSize, alignment) with a large objectCount
AllocateArrayWide ==
    \E count \in WideCounts, type \in ArrayTypes :
        AllocStep("AllocateArray", type[1], count, type[2])

NextWide ==
    \/ Allocate
    \/ AllocateArray
    \/ AllocateWide
    \/ AllocateArrayWide

SpecWide == Init /\ [][NextWide]_vars

\* C34: with SizeCheck, Allocate / AllocateArray does not succeed when
\* currentOffset + padding + objectCount x objectSize, computed without
\* wrapping, exceeds totalSize
C34_CapacityTestExact ==
    (policy.SizeCheck /\ lastOp.op \in {"Allocate", "AllocateArray"}
     /\ lastOp.outcome \in {"ok", "UB"})
    => lastOp.ptr - StartAddress + lastOp.req.count * lastOp.req.size <= TotalSize

====
